---- MODULE Spec2Model ----
(***************************************************************************)
(* Model of the Mafia game server: one Room (models/Room.ts), the          *)
(* RoomManager registry, the GameTimer orchestrator and the socket / admin *)
(* handlers that drive them.  Rooms are independent, so one room is        *)
(* modelled.  An async handler is split at the awaits after which it still *)
(* acts on the room: the part before the await is one action, the part     *)
(* after it is a continuation kept in pend until it resumes or its save    *)
(* rejects.                                                                *)
(***************************************************************************)
EXTENDS Integers, Sequences, FiniteSets, TLC

\* ------------------------------------------------------------------ bounds
\* Persistent player ids of the clients that may create / join the room.
PlayerIds == {"p1", "p2", "p3"}
\* The target ids the clients send with a vote or a night action.
TargetIds == PlayerIds
\* startNextNight is not taken beyond this round.
MaxRound == 2
\* Suspended handler continuations of one kind at one time.
MaxInFlight == 1
\* The scheduled setTimeout(endGame) callbacks are counted up to this value.
MaxEnds == 1
\* chatMessages is modelled by its length, counted up to this value.
MaxChat == 1
\* Departures, admin calls, restarts, failed saves and game:start events of
\* a started game in one behaviour.
MaxEvents == 1

\* --------------------------------------------------------------- settings
Null == "null"
\* settings.minPlayers (MIN_PLAYERS in the environment)
MinPlayers == 3
\* settings.maxPlayers (MAX_PLAYERS in the environment, default "16")
MaxPlayers == 16

Phases == {"lobby", "night", "discussion", "voting", "ended"}
ActivePhases == {"night", "discussion", "voting"}

EmptyMap == [x \in {} |-> Null]

Max(S) == CHOOSE m \in S : \A n \in S : n <= m

Range(s) == {s[i] : i \in DOMAIN s}

\* All orderings of the elements of sequence s (a shuffle's possible results).
Shuffles(s) ==
  {q \in [1..Len(s) -> Range(s)] : \A i, j \in 1..Len(s) : i # j => q[i] # q[j]}

\* ------------------------------------------------------------ Room methods
\* A room r is a record of the fields of class Room.  players is the Map in
\* insertion order, as a sequence of Player records.

NewPlayer(playerId, isHost) ==
  [id |-> playerId, isAlive |-> TRUE, isHost |-> isHost, role |-> "none"]

\* addPlayer that makes every player it adds a host.
AddPlayerAsHost(r, playerId, isHost) ==
  [r EXCEPT !.players = Append(@, NewPlayer(playerId, TRUE))]

AddPlayer(r, playerId, isHost) ==
  IF \E i \in DOMAIN r.players : r.players[i].id = playerId
    THEN [r EXCEPT !.players =
            [i \in DOMAIN r.players |->
               IF r.players[i].id = playerId THEN NewPlayer(playerId, isHost)
               ELSE r.players[i]]]
    ELSE [r EXCEPT !.players = Append(r.players, NewPlayer(playerId, isHost))]

NewRoom(hostId) ==
  AddPlayer(
    [hostId |-> hostId, players |-> <<>>, phase |-> "lobby", round |-> 0,
     endTime |-> Null, discussionState |-> <<>>, nightActions |-> EmptyMap,
     votes |-> EmptyMap, chatMessages |-> 0, connectedSockets |-> {},
     isEnded |-> FALSE, lastVotingResult |-> <<>>, lastNightResult |-> <<>>],
    hostId, TRUE)

PlayerIdsOf(r) == {r.players[i].id : i \in DOMAIN r.players}

HasPlayer(r, playerId) == playerId \in PlayerIdsOf(r)

GetPlayer(r, playerId) ==
  r.players[CHOOSE i \in DOMAIN r.players : r.players[i].id = playerId]

GetAllPlayers(r) == r.players

GetAlivePlayers(r) == SelectSeq(r.players, LAMBDA p : p.isAlive)

AliveIds(r) == {p.id : p \in Range(GetAlivePlayers(r))}

IdsOf(ps) == [i \in DOMAIN ps |-> ps[i].id]

RemovePlayerNoHost(r, playerId) ==
  [r EXCEPT !.players = SelectSeq(r.players, LAMBDA p : p.id # playerId)]

\* removePlayer: delete the player; a removed host passes the host flag and
\* hostId to the first remaining player.
RemovePlayer(r, playerId) ==
  LET wasHost == HasPlayer(r, playerId) /\ GetPlayer(r, playerId).isHost
      rest == SelectSeq(r.players, LAMBDA p : p.id # playerId)
  IN IF HasPlayer(r, playerId) /\ wasHost /\ Len(rest) > 0
       THEN [r EXCEPT !.players = <<[rest[1] EXCEPT !.isHost = TRUE]>> \o Tail(rest),
                      !.hostId = rest[1].id]
       ELSE [r EXCEPT !.players = rest]

SetSocketConnection(r, playerId) ==
  [r EXCEPT !.connectedSockets = @ \cup {playerId}]

RemoveSocketConnection(r, playerId) ==
  [r EXCEPT !.connectedSockets = @ \ {playerId}]

IsPlayerConnected(r, playerId) == playerId \in r.connectedSockets

\* updateEndTime: the deadline is a time in the future; only "set or null"
\* is kept, the timer's tick may find it expired at any later moment.
UpdateEndTime(r) == [r EXCEPT !.endTime = "set"]

AddChatMessage(r) ==
  [r EXCEPT !.chatMessages = IF @ < MaxChat THEN @ + 1 ELSE @]

\* The tiered mafia count of assignRoles (doctor and sheriff are switched
\* off in every tier).
\* defaultSettings of room:create: the role settings every room is created
\* with.
DefaultSettings == [mafiaCount |-> 2, hasDoctor |-> TRUE, hasSheriff |-> TRUE]

\* The mafia count taken from the settings instead of the tiers.
MafiaCountOfSettings(playerCount) == DefaultSettings.mafiaCount

MafiaCount(playerCount) ==
  IF playerCount <= 6 THEN 1
  ELSE IF playerCount <= 9 THEN 2
  ELSE IF playerCount <= 12 THEN 3
  ELSE 4

TierHasDoctor(playerCount) == FALSE

TierHasSheriff(playerCount) == FALSE

\* The role assignRoles gives to the player at position k of the shuffle.
RoleAt(k, playerCount) ==
  LET m == MafiaCount(playerCount)
      d == IF TierHasDoctor(playerCount) THEN 1 ELSE 0
      s == IF TierHasSheriff(playerCount) THEN 1 ELSE 0
  IN IF k <= m THEN "mafia"
     ELSE IF d = 1 /\ k = m + 1 THEN "doctor"
     ELSE IF s = 1 /\ k = m + d + 1 THEN "sheriff"
     ELSE "citizen"

\* assignRoles, for the shuffled order of the player ids.
AssignRoles(r, shuffled) ==
  LET n == Len(r.players)
      pos(id) == CHOOSE k \in 1..n : shuffled[k] = id
  IN [r EXCEPT !.players =
        [i \in DOMAIN r.players |->
           [r.players[i] EXCEPT !.role = RoleAt(pos(r.players[i].id), n)]]]

StartDiscussion(r) ==
  LET alive == IdsOf(GetAlivePlayers(r))
  IN UpdateEndTime(
       [r EXCEPT !.phase = "discussion",
                 !.discussionState =
                   <<[currentSpeakerId |-> IF Len(alive) > 0 THEN alive[1] ELSE Null,
                      speakerOrder |-> alive,
                      currentSpeakerIndex |-> 0,
                      isIndividualPhase |-> TRUE]>>])

CanStartGame(r) == Len(r.players) >= MinPlayers

\* startGame without the reset of round and of the two maps.
StartGameNoReset(r, shuffled) == StartDiscussion(AssignRoles(r, shuffled))

\* startGame that also sets every player alive.
StartGameRevive(r, shuffled) ==
  LET a == AssignRoles(r, shuffled)
  IN StartDiscussion(
       [a EXCEPT !.round = 1, !.nightActions = EmptyMap, !.votes = EmptyMap,
                 !.players = [i \in DOMAIN a.players |->
                                [a.players[i] EXCEPT !.isAlive = TRUE]]])

StartGame(r, shuffled) ==
  StartDiscussion(
    [AssignRoles(r, shuffled) EXCEPT !.round = 1,
                                     !.nightActions = EmptyMap,
                                     !.votes = EmptyMap])

StartNextNight(r) ==
  UpdateEndTime(
    [r EXCEPT !.phase = "night", !.round = @ + 1,
              !.nightActions = EmptyMap, !.votes = EmptyMap])

HasDS(r) == r.discussionState # <<>>

DS(r) == r.discussionState[1]

\* nextSpeaker returning true whenever the room has a discussionState.
NextSpeakerAlways(r) == HasDS(r)

\* nextSpeaker: the room after the call (its result is HasDS(r) /\ individual).
NextSpeakerResult(r) == HasDS(r) /\ DS(r).isIndividualPhase

NextSpeaker(r) ==
  IF ~HasDS(r) \/ ~DS(r).isIndividualPhase THEN r
  ELSE LET nextIndex == DS(r).currentSpeakerIndex + 1
       IN IF nextIndex < Len(DS(r).speakerOrder)
            THEN UpdateEndTime(
                   [r EXCEPT !.discussionState =
                      <<[DS(r) EXCEPT !.currentSpeakerIndex = nextIndex,
                                      !.currentSpeakerId = DS(r).speakerOrder[nextIndex + 1]]>>])
            ELSE UpdateEndTime(
                   [r EXCEPT !.discussionState =
                      <<[DS(r) EXCEPT !.isIndividualPhase = FALSE,
                                      !.currentSpeakerId = Null]>>])

EndDiscussion(r) ==
  LET alive == IdsOf(GetAlivePlayers(r))
  IN UpdateEndTime(
       [r EXCEPT !.phase = "voting",
                 !.discussionState =
                   <<[currentSpeakerId |-> IF Len(alive) > 0 THEN alive[1] ELSE Null,
                      speakerOrder |-> alive,
                      currentSpeakerIndex |-> 0,
                      isIndividualPhase |-> TRUE]>>,
                 !.votes = EmptyMap])

HasPlayerVoted(r, playerId) == playerId \in DOMAIN r.votes

\* vote, when the voter has no recorded vote (it throws otherwise).
\* vote without the check for a recorded vote.
VoteOverwrite(r, voterId, targetId) ==
  [r EXCEPT !.votes = [v \in DOMAIN r.votes \cup {voterId} |->
                         IF v = voterId THEN targetId ELSE r.votes[v]]]

\* vote throws when the voter has a recorded vote.
VoteThrows(r, voterId) == HasPlayerVoted(r, voterId)

\* vote: the room after the call, which is the room as it was when it threw.
Vote(r, voterId, targetId) ==
  IF VoteThrows(r, voterId) THEN r
  ELSE [r EXCEPT !.votes = [v \in DOMAIN r.votes \cup {voterId} |->
                              IF v = voterId THEN targetId ELSE r.votes[v]]]

NextVoterResult(r) ==
  HasDS(r) /\ DS(r).currentSpeakerIndex + 1 < Len(DS(r).speakerOrder)

NextVoter(r) ==
  IF ~NextVoterResult(r) THEN r
  ELSE LET nextIndex == DS(r).currentSpeakerIndex + 1
       IN UpdateEndTime(
            [r EXCEPT !.discussionState =
               <<[DS(r) EXCEPT !.currentSpeakerIndex = nextIndex,
                               !.currentSpeakerId = DS(r).speakerOrder[nextIndex + 1]]>>])

SetAlive(r, playerId, alive) ==
  [r EXCEPT !.players =
     [i \in DOMAIN r.players |->
        IF r.players[i].id = playerId
          THEN [r.players[i] EXCEPT !.isAlive = alive]
          ELSE r.players[i]]]

\* processVoting: the voteCounts record (keys and tallies).
VoteCountKeys(r) ==
  {r.votes[v] : v \in DOMAIN r.votes}
    \cup {p \in AliveIds(r) : ~HasPlayerVoted(r, p)}

VoteCountsNoAuto(r) ==
  [t \in {r.votes[v] : v \in DOMAIN r.votes} |->
     Cardinality({v \in DOMAIN r.votes : r.votes[v] = t})]

VoteCounts(r) ==
  [t \in VoteCountKeys(r) |->
     Cardinality({v \in DOMAIN r.votes : r.votes[v] = t})
       + (IF t \in AliveIds(r) /\ ~HasPlayerVoted(r, t) THEN 1 ELSE 0)]

ProcessVotingResult(r) ==
  LET voteCounts == VoteCounts(r)
      maxVotes == Max({voteCounts[t] : t \in DOMAIN voteCounts} \cup {0})
      playersWithMaxVotes == {t \in DOMAIN voteCounts : voteCounts[t] = maxVotes}
      isTie == Cardinality(playersWithMaxVotes) > 1 \/ maxVotes = 0
  IN [eliminatedId |-> IF isTie THEN Null ELSE CHOOSE t \in playersWithMaxVotes : TRUE,
      votes |-> voteCounts,
      isTie |-> isTie]

ProcessVoting(r) ==
  LET result == ProcessVotingResult(r)
      killed == IF result.eliminatedId # Null /\ HasPlayer(r, result.eliminatedId)
                  THEN SetAlive(r, result.eliminatedId, FALSE)
                  ELSE r
  IN [killed EXCEPT !.votes = EmptyMap, !.discussionState = <<>>]

\* checkGameEnd with the mafia winning only when it outnumbers the town.
CheckGameEndStrict(r) ==
  LET alive == Range(GetAlivePlayers(r))
      mafiaCount == Cardinality({p \in alive : p.role = "mafia"})
      townCount == Cardinality({p \in alive : p.role # "mafia"})
  IN IF mafiaCount = 0 THEN "town"
     ELSE IF mafiaCount > townCount THEN "mafia"
     ELSE Null

CheckGameEnd(r) ==
  LET alive == Range(GetAlivePlayers(r))
      mafiaCount == Cardinality({p \in alive : p.role = "mafia"})
      townCount == Cardinality({p \in alive : p.role # "mafia"})
  IN IF mafiaCount = 0 THEN "town"
     ELSE IF mafiaCount >= townCount THEN "mafia"
     ELSE Null

\* The stored copy of a voting result: who was eliminated and whether it
\* was a tie (its tallies are not kept here).
LastVotingResultOf(result) ==
  [eliminatedId |-> result.eliminatedId, isTie |-> result.isTie]

\* lastVotingResult and lastNightResult are null (the empty sequence) or hold
\* one result.
SetLastVotingResult(r, result) == [r EXCEPT !.lastVotingResult = <<result>>]

SetLastNightResult(r, result) == [r EXCEPT !.lastNightResult = <<result>>]

SetIsEnded(r, ended) ==
  [r EXCEPT !.isEnded = ended, !.phase = IF ended THEN "ended" ELSE @]

\* nightActions is the Map from actor to target.  Its insertion order is not
\* kept: where the code takes the first action of a role, any action of that
\* role may be the first.
SetNightAction(r, playerId, targetId) ==
  [r EXCEPT !.nightActions = [a \in DOMAIN r.nightActions \cup {playerId} |->
                                IF a = playerId THEN targetId ELSE r.nightActions[a]]]

RoleOf(r, playerId) ==
  IF HasPlayer(r, playerId) THEN GetPlayer(r, playerId).role ELSE "none"

ActionsOfRole(r, role) ==
  {a \in DOMAIN r.nightActions : RoleOf(r, a) = role}

FirstTargetOfRole(r, role) ==
  IF ActionsOfRole(r, role) = {} THEN Null
  ELSE r.nightActions[CHOOSE a \in ActionsOfRole(r, role) : TRUE]

\* processNightPhase: the values killedId can take (several when the mafia's
\* targets tie and Math.random picks one).  With several living mafia an
\* empty targetId is not counted; a single mafia's target is taken as it is.
KilledIdChoices(r) ==
  LET mafiaActions == ActionsOfRole(r, "mafia")
      mafiaPlayers == {p \in Range(r.players) : p.role = "mafia" /\ p.isAlive}
      targets == {r.nightActions[a] : a \in mafiaActions}
      counted == {t \in targets : t # ""}
      voteCounts == [t \in counted |->
                       Cardinality({a \in mafiaActions : r.nightActions[a] = t})]
      maxVotes == Max({voteCounts[t] : t \in counted} \cup {0})
  IN IF Cardinality(mafiaPlayers) > 1 /\ mafiaActions # {}
       THEN IF counted = {} THEN {Null}
            ELSE {t \in counted : voteCounts[t] = maxVotes}
       ELSE IF mafiaActions # {} THEN targets
       ELSE {Null}

ProcessNightPhaseResult(r, killedId) ==
  LET checkedId == FirstTargetOfRole(r, "sheriff")
  IN [killedId |-> killedId,
      savedId |-> FirstTargetOfRole(r, "doctor"),
      checkedId |-> checkedId,
      checkedRole |-> IF checkedId \notin {Null, ""} THEN RoleOf(r, checkedId) ELSE "none"]

\* processNightPhase without the doctor's save.
ProcessNightPhaseNoSave(r, killedId) ==
  LET killed == IF killedId \notin {Null, ""} /\ HasPlayer(r, killedId)
                  THEN SetAlive(r, killedId, FALSE)
                  ELSE r
  IN [killed EXCEPT !.nightActions = EmptyMap]

ProcessNightPhase(r, killedId) ==
  LET result == ProcessNightPhaseResult(r, killedId)
      killed == IF killedId \notin {Null, ""} /\ killedId # result.savedId
                   /\ HasPlayer(r, killedId)
                  THEN SetAlive(r, killedId, FALSE)
                  ELSE r
  IN [killed EXCEPT !.nightActions = EmptyMap]

\* toGameRoom: the serialized fields (connectedSockets, lastVotingResult and
\* lastNightResult are not among them); endTime || 0.
ToGameRoom(r) ==
  [hostId |-> r.hostId, players |-> r.players, phase |-> r.phase,
   round |-> r.round, endTime |-> IF r.endTime = Null THEN "0" ELSE r.endTime,
   discussionState |-> r.discussionState, chatMessages |-> r.chatMessages,
   votes |-> r.votes, nightActions |-> r.nightActions, isEnded |-> r.isEnded]

\* fromGameRoom: new Room(data.hostId, "", settings) puts the host first in
\* players; every stored player is then set over it or appended.
RestorePlayers(r, stored) ==
  LET hostStored == \E i \in DOMAIN stored : stored[i].id = r.hostId
      first == IF hostStored
                 THEN <<stored[CHOOSE i \in DOMAIN stored : stored[i].id = r.hostId]>>
                 ELSE r.players
  IN [r EXCEPT !.players = first \o SelectSeq(stored, LAMBDA p : p.id # r.hostId)]

FromGameRoomNoVotes(data) ==
  RestorePlayers(
    [NewRoom(data.hostId) EXCEPT
       !.phase = data.phase, !.round = data.round,
       !.endTime = IF data.endTime = "0" THEN Null ELSE data.endTime,
       !.discussionState = data.discussionState,
       !.chatMessages = data.chatMessages, !.isEnded = data.isEnded,
       !.nightActions = data.nightActions],
    data.players)

FromGameRoom(data) ==
  RestorePlayers(
    [NewRoom(data.hostId) EXCEPT
       !.phase = data.phase, !.round = data.round,
       !.endTime = IF data.endTime = "0" THEN Null ELSE data.endTime,
       !.discussionState = data.discussionState,
       !.chatMessages = data.chatMessages, !.isEnded = data.isEnded,
       !.votes = data.votes, !.nightActions = data.nightActions],
    data.players)

\* ------------------------------------------------------------------ state
VARIABLES
  room,            \* the Room object
  registered,      \* RoomManager.rooms holds the room
  saved,           \* Redis holds a snapshot of the room as it is now
  timer,           \* GameTimer.timers holds an interval for the room
  pend,            \* suspended handler continuations, by kind
  endPending,      \* scheduled setTimeout(endGame) callbacks
  nightResolved,   \* processNightPhase calls since the night began
  votingResolved,  \* processVoting calls since the voting sequence began
  events,          \* departures, admin calls, restarts, failed saves and
                   \* game:start events of a started game so far
  sockets,         \* connectedSockets with its socket ids, and the open sockets;
                   \* for the registry on its own, RoomManager.rooms and playerToRoom
  last             \* the last Room method applied on its own, with its result

vars == <<room, registered, saved, timer, pend, endPending,
          nightResolved, votingResolved, events, sockets, last>>

\* The state of the specifications that follow the socket ids or apply one
\* Room method at a time; the game specification leaves it alone.
Aux == <<sockets, last>>

NoSockets == [of |-> EmptyMap, open |-> {}]

NoCall == [op |-> "none"]

\* One more of the events that MaxEvents counts.
Event == events < MaxEvents /\ events' = events + 1

\* Continuation kinds: "arm" resumes at this.startTimer(room) (after the
\* await of a save that follows a transition), "afterAuto" resumes
\* handleVotingEnd after the save that follows the auto-vote.
ContKinds == {"arm", "afterAuto"}

NoPend == [k \in ContKinds |-> 0]

PendTotal == pend["arm"] + pend["afterAuto"]

AddPend(pd, kind) ==
  IF kind = "none" THEN pd ELSE [pd EXCEPT ![kind] = @ + 1]

Bump(n) == IF n < 2 THEN n + 1 ELSE n

\* setTimeout(() => this.endGame(room, winner), 5000)
ScheduleEnd(n) == IF n < MaxEnds THEN n + 1 ELSE n

\* What the synchronous part of a handler did: the room it left, the
\* continuation it awaits (or "none"), whether it scheduled endGame, and
\* which of processNightPhase, processVoting, startNextNight and
\* endDiscussion it called.
Outcome(r, cont, end, np, pv, nn, ed) ==
  [room |-> r, cont |-> cont, end |-> end, np |-> np, pv |-> pv, nn |-> nn, ed |-> ed]

Nothing(r) == Outcome(r, "none", FALSE, FALSE, FALSE, FALSE, FALSE)

\* GameTimer.processVoting, and the same code in the action:vote handler.
ResolveVoting(r) ==
  LET r1 == ProcessVoting(r)
  IN IF CheckGameEnd(r1) # Null
       THEN Outcome(SetLastVotingResult(r1, LastVotingResultOf(ProcessVotingResult(r))),
                    "none", TRUE, FALSE, TRUE, FALSE, FALSE)
       ELSE Outcome(StartNextNight(AddChatMessage(r1)), "arm", FALSE, FALSE, TRUE, TRUE, FALSE)

\* handleVotingEnd that advances the voter and never resolves the voting.
AdvanceVoterOnly(r) == Outcome(NextVoter(r), "arm", FALSE, FALSE, FALSE, FALSE, FALSE)

\* handleVotingEnd from "const hasNext = room.nextVoter()" on.
AdvanceVoter(r) ==
  IF NextVoterResult(r)
    THEN Outcome(NextVoter(r), "arm", FALSE, FALSE, FALSE, FALSE, FALSE)
    ELSE ResolveVoting(r)

HandleVotingEnd(r) ==
  IF ~HasDS(r) THEN Nothing(r)
  ELSE IF DS(r).isIndividualPhase
    THEN LET currentVoterId == DS(r).currentSpeakerId
         IN IF currentVoterId # Null /\ ~HasPlayerVoted(r, currentVoterId)
              THEN LET r1 == Vote(r, currentVoterId, currentVoterId)
                   IN Outcome(IF HasPlayer(r1, currentVoterId) THEN AddChatMessage(r1) ELSE r1,
                              "afterAuto", FALSE, FALSE, FALSE, FALSE, FALSE)
              ELSE AdvanceVoter(r)
    ELSE ResolveVoting(r)

HandleDiscussionEnd(r) ==
  IF ~HasDS(r) THEN Nothing(r)
  ELSE IF DS(r).isIndividualPhase
    THEN Outcome(NextSpeaker(r), "arm", FALSE, FALSE, FALSE, FALSE, FALSE)
    ELSE Outcome(EndDiscussion(r), "arm", FALSE, FALSE, FALSE, FALSE, TRUE)

HandleNightEnd(r, killedId) ==
  LET result == ProcessNightPhaseResult(r, killedId)
      r1 == ProcessNightPhase(r, killedId)
  IN IF CheckGameEnd(r1) # Null
       THEN Outcome(SetLastNightResult(r1, [killedId |-> result.killedId,
                                            savedId |-> result.savedId]),
                    "none", TRUE, TRUE, FALSE, FALSE, FALSE)
       ELSE Outcome(StartDiscussion(AddChatMessage(r1)), "arm", FALSE, TRUE, FALSE, FALSE, FALSE)

HandlePhaseEnd(r, killedId) ==
  CASE r.phase = "night" -> HandleNightEnd(r, killedId)
    [] r.phase = "discussion" -> HandleDiscussionEnd(r)
    [] r.phase = "voting" -> HandleVotingEnd(r)
    [] OTHER -> Nothing(r)

\* Redis holds the room as it is after a step: the step called saveRoom with
\* it, or Redis held it before and the step changed no serialized field.
SavedAfter(saveCalled, r) ==
  saveCalled \/ (saved /\ ToGameRoom(r) = ToGameRoom(room))

\* The effect of a handler's synchronous part on the state (the timer is set
\* by the caller).
Apply(out) ==
  /\ out.room.round <= MaxRound
  /\ room' = out.room
  /\ pend' = AddPend(pend, out.cont)
  /\ \A k \in ContKinds : pend'[k] <= MaxInFlight
  /\ endPending' = IF out.end THEN ScheduleEnd(endPending) ELSE endPending
  /\ nightResolved' = IF out.nn THEN 0 ELSE IF out.np THEN Bump(nightResolved) ELSE nightResolved
  /\ votingResolved' = IF out.ed THEN 0 ELSE IF out.pv THEN Bump(votingResolved) ELSE votingResolved
  /\ saved' = SavedAfter(out.cont # "none", out.room)

Init ==
  /\ room = SetSocketConnection(NewRoom("p1"), "p1")
  /\ registered = TRUE
  /\ saved = TRUE
  /\ timer = FALSE
  /\ pend = NoPend
  /\ endPending = 0
  /\ nightResolved = 0
  /\ votingResolved = 0
  /\ events = 0
  /\ sockets = NoSockets
  /\ last = NoCall

\* ------------------------------------------------------------- GameTimer
\* The interval's callback finds the deadline passed: handlePhaseEnd stops
\* the timer and runs the phase's handler up to its first await.
Tick ==
  /\ timer
  /\ timer' = FALSE
  /\ \E killedId \in KilledIdChoices(room) : Apply(HandlePhaseEnd(room, killedId))
  /\ UNCHANGED <<registered, events>>
  /\ UNCHANGED Aux

\* The awaited save resolved: the handler goes on to this.startTimer(room).
ResumeArm ==
  /\ pend["arm"] > 0
  /\ pend' = [pend EXCEPT !["arm"] = @ - 1]
  /\ timer' = TRUE
  /\ UNCHANGED <<room, registered, saved, endPending, nightResolved, votingResolved, events>>
  /\ UNCHANGED Aux

\* The awaited save rejected: the handler ends there.
ResumeFail ==
  /\ \E kind \in ContKinds :
       /\ pend[kind] > 0
       /\ pend' = [pend EXCEPT ![kind] = @ - 1]
  /\ saved' = FALSE
  /\ Event
  /\ UNCHANGED <<room, registered, timer, endPending, nightResolved, votingResolved>>
  /\ UNCHANGED Aux

\* The save after the auto-vote resolved: handleVotingEnd goes on.
ResumeAfterAuto ==
  /\ pend["afterAuto"] > 0
  /\ LET out == AdvanceVoter(room)
     IN /\ out.room.round <= MaxRound
        /\ room' = out.room
        /\ pend' = AddPend([pend EXCEPT !["afterAuto"] = @ - 1], out.cont)
        /\ \A k \in ContKinds : pend'[k] <= MaxInFlight
        /\ endPending' = IF out.end THEN ScheduleEnd(endPending) ELSE endPending
        /\ nightResolved' = IF out.nn THEN 0 ELSE nightResolved
        /\ votingResolved' = IF out.pv THEN Bump(votingResolved) ELSE votingResolved
        /\ saved' = SavedAfter(out.cont # "none", out.room)
  /\ UNCHANGED <<registered, timer, events>>
  /\ UNCHANGED Aux

\* The setTimeout of 5 s fires: endGame.
EndGameFire ==
  /\ endPending > 0
  /\ endPending' = endPending - 1
  /\ timer' = FALSE
  /\ room' = SetIsEnded(room, TRUE)
  /\ saved' = TRUE
  /\ UNCHANGED <<registered, pend, nightResolved, votingResolved, events>>
  /\ UNCHANGED Aux

\* -------------------------------------------------------- socket handlers
\* findPlayerIdBySocket, for the socket of client p: the room is registered
\* and maps one of its players to that socket.
FindPlayerIdBySocket(p) ==
  registered /\ HasPlayer(room, p) /\ IsPlayerConnected(room, p)

Quiet == <<timer, pend, endPending, nightResolved, votingResolved>>

\* room:join of a client whose id is in the room (reconnection) or new.
RoomJoin(p) ==
  /\ registered
  /\ IF HasPlayer(room, p)
       THEN LET wasConnected == IsPlayerConnected(room, p)
                r1 == SetSocketConnection(room, p)
                notify == room.phase # "lobby" /\ ~wasConnected
                r2 == IF notify THEN AddChatMessage(r1) ELSE r1
            IN room' = r2 /\ saved' = SavedAfter(notify, r2)
       ELSE /\ room.phase = "lobby"
            /\ Len(room.players) < MaxPlayers
            /\ room' = SetSocketConnection(AddPlayer(room, p, FALSE), p)
            /\ saved' = TRUE
  /\ UNCHANGED <<registered, timer, pend, endPending, nightResolved, votingResolved, events>>
  /\ UNCHANGED Aux

\* RoomManager.leaveRoom: the registry drops a room left empty (and nothing
\* touches GameTimer).
LeaveRoom(r) ==
  /\ room' = r
  /\ registered' = (Len(r.players) > 0)
  /\ saved' = (Len(r.players) > 0)

RoomLeave(p) ==
  /\ FindPlayerIdBySocket(p)
  /\ LeaveRoom(RemovePlayer(room, p))
  /\ Event
  /\ UNCHANGED Quiet
  /\ UNCHANGED Aux

\* The disconnect handler's effect on the room, for the socket of p.
OnDisconnect(r, p) ==
  IF HasPlayer(r, p) /\ IsPlayerConnected(r, p)
    THEN IF r.phase # "lobby"
           THEN AddChatMessage(RemoveSocketConnection(r, p))
           ELSE RemovePlayer(RemoveSocketConnection(r, p), p)
    ELSE r

Disconnect(p) ==
  /\ FindPlayerIdBySocket(p)
  /\ IF room.phase # "lobby"
       THEN room' = OnDisconnect(room, p) /\ saved' = TRUE /\ UNCHANGED registered
       ELSE LeaveRoom(OnDisconnect(room, p))
  /\ Event
  /\ UNCHANGED Quiet
  /\ UNCHANGED Aux

\* game:start: the sender must be the host; nothing looks at the phase.
GameStart(p) ==
  /\ FindPlayerIdBySocket(p)
  /\ GetPlayer(room, p).isHost
  /\ CanStartGame(room)
  /\ \E shuffled \in Shuffles(IdsOf(room.players)) :
       room' = StartGame(room, shuffled)
  /\ timer' = TRUE
  /\ saved' = TRUE
  /\ IF room.phase = "lobby" THEN UNCHANGED events ELSE Event
  /\ UNCHANGED <<registered, pend, endPending, nightResolved, votingResolved>>
  /\ UNCHANGED Aux

NightAction(p, targetId) ==
  /\ FindPlayerIdBySocket(p)
  /\ room.phase = "night"
  /\ GetPlayer(room, p).isAlive
  /\ room' = SetNightAction(room, p, targetId)
  /\ saved' = TRUE
  /\ UNCHANGED <<registered, timer, pend, endPending, nightResolved, votingResolved, events>>
  /\ UNCHANGED Aux

\* action:vote.  The turn-holder's vote advances the turn at once, and the
\* last voter's vote resolves the voting.
ActionVote(p, targetId) ==
  /\ FindPlayerIdBySocket(p)
  /\ room.phase = "voting"
  /\ GetPlayer(room, p).isAlive
  /\ (HasDS(room) /\ DS(room).isIndividualPhase) => DS(room).currentSpeakerId = p
  /\ ~HasPlayerVoted(room, p)
  /\ LET r1 == Vote(room, p, targetId)
         r2 == IF HasPlayer(r1, targetId) THEN AddChatMessage(r1) ELSE r1
     IN IF HasDS(room) /\ DS(room).isIndividualPhase
          THEN IF NextVoterResult(r2)
                 THEN /\ room' = NextVoter(r2)
                      /\ timer' = TRUE
                      /\ saved' = TRUE
                      /\ UNCHANGED <<pend, endPending, nightResolved, votingResolved>>
                 ELSE /\ timer' = FALSE
                      /\ Apply(ResolveVoting(r2))
          ELSE /\ room' = r2
               /\ saved' = TRUE
               /\ UNCHANGED Quiet
  /\ UNCHANGED <<registered, events>>
  /\ UNCHANGED Aux

\* chat:send: the dead may chat only once the game has ended; a mafia
\* member's message at night is not stored.
ChatSend(p) ==
  /\ FindPlayerIdBySocket(p)
  /\ GetPlayer(room, p).isAlive \/ room.phase = "ended"
  /\ ~(room.phase = "night" /\ GetPlayer(room, p).role = "mafia")
  /\ room' = AddChatMessage(room)
  /\ saved' = SavedAfter(room.phase # "lobby", AddChatMessage(room))
  /\ UNCHANGED <<registered, timer, pend, endPending, nightResolved, votingResolved, events>>
  /\ UNCHANGED Aux

\* ------------------------------------------------------------ admin routes
\* POST /rooms/:code/end
AdminEndRoom ==
  /\ registered
  /\ room' = SetIsEnded(room, TRUE)
  /\ registered' = FALSE
  /\ saved' = FALSE
  /\ Event
  /\ UNCHANGED Quiet
  /\ UNCHANGED Aux

RECURSIVE DisconnectEach(_, _)
DisconnectEach(r, ids) ==
  IF ids = <<>> THEN r
  ELSE DisconnectEach(OnDisconnect(r, Head(ids)), Tail(ids))

\* DELETE /rooms/:code: every connected player's socket is disconnected,
\* then the room is removed from the registry.
AdminDeleteRoom ==
  /\ registered
  /\ room' = DisconnectEach(room, IdsOf(room.players))
  /\ registered' = FALSE
  /\ saved' = FALSE
  /\ Event
  /\ UNCHANGED Quiet
  /\ UNCHANGED Aux

\* ------------------------------------------------------- process restart
\* The process stops and starts again: the registry, the timers and every
\* suspended handler are gone, Redis keeps the last snapshot.
Restart ==
  /\ registered
  /\ saved
  /\ registered' = FALSE
  /\ timer' = FALSE
  /\ pend' = NoPend
  /\ endPending' = 0
  /\ Event
  /\ UNCHANGED <<room, saved, nightResolved, votingResolved>>
  /\ UNCHANGED Aux

\* findPlayerById / findPlayerByName / joinRoom: a room that is not in
\* memory is rebuilt from its Redis snapshot and registered.
Reload ==
  /\ ~registered
  /\ saved
  /\ ~timer /\ PendTotal = 0 /\ endPending = 0
  /\ room' = FromGameRoom(ToGameRoom(room))
  /\ registered' = TRUE
  /\ UNCHANGED <<saved, timer, pend, endPending, nightResolved, votingResolved, events>>
  /\ UNCHANGED Aux

Next ==
  \/ Tick
  \/ ResumeArm
  \/ ResumeFail
  \/ ResumeAfterAuto
  \/ EndGameFire
  \/ \E p \in PlayerIds : RoomJoin(p)
  \/ \E p \in PlayerIds : RoomLeave(p)
  \/ \E p \in PlayerIds : Disconnect(p)
  \/ \E p \in PlayerIds : GameStart(p)
  \/ \E p \in PlayerIds, t \in TargetIds : NightAction(p, t)
  \/ \E p \in PlayerIds, t \in TargetIds : ActionVote(p, t)
  \/ \E p \in PlayerIds : ChatSend(p)
  \/ AdminEndRoom
  \/ AdminDeleteRoom
  \/ Restart
  \/ Reload

Spec == Init /\ [][Next]_vars

\* ---------------------------------------------- a game left to its timer
\* A lobby of three, created by p1, the others joined in either order.
Lobbies ==
  {SetSocketConnection(AddPlayer(SetSocketConnection(AddPlayer(
      SetSocketConnection(NewRoom("p1"), "p1"), o[1], FALSE), o[1]), o[2], FALSE), o[2]) :
     o \in {<<"p2", "p3">>, <<"p3", "p2">>}}

\* The game just started, or its second night with the mafia's choice made
\* (after a discussion and a tied voting).
GamesInProgress ==
  LET started == {StartGame(l, sh) : l \in Lobbies, sh \in Shuffles(<<"p1", "p2", "p3">>)}
      mafiaOf(r) == CHOOSE p \in PlayerIdsOf(r) : RoleOf(r, p) = "mafia"
      night(r) == StartNextNight(AddChatMessage(ProcessVoting(EndDiscussion(r))))
  IN started \cup
     {SetNightAction(night(r), mafiaOf(r), t) : r \in started, t \in PlayerIds}

QuietInit ==
  /\ room \in GamesInProgress
  /\ registered = TRUE
  /\ saved = TRUE
  /\ timer = TRUE
  /\ pend = NoPend
  /\ endPending = 0
  /\ nightResolved = 0
  /\ votingResolved = 0
  /\ events = 0
  /\ sockets = NoSockets
  /\ last = NoCall

\* No player sends an event: only the timer, the handlers it suspended and
\* the delayed endGame run; a save may still reject.
QuietNext ==
  \/ Tick
  \/ ResumeArm
  \/ ResumeFail
  \/ ResumeAfterAuto
  \/ EndGameFire

\* The interval keeps firing, a save that resolves resumes its handler, and
\* the 5 s timeout fires.
QuietSpec ==
  /\ QuietInit
  /\ [][QuietNext]_vars
  /\ WF_vars(Tick)
  /\ WF_vars(ResumeArm)
  /\ WF_vars(ResumeAfterAuto)
  /\ WF_vars(EndGameFire)

\* ------------------------------------------------------------ properties
\* Position of a phase in the cycle lobby, night, discussion, voting, ended.
PhaseRank(phase) ==
  CASE phase = "lobby" -> 0
    [] phase = "night" -> 1
    [] phase = "discussion" -> 2
    [] phase = "voting" -> 3
    [] phase = "ended" -> 4

\* C1: a change of phase never moves back to an earlier phase of the cycle
\* lobby, night, discussion, voting, (night | ended): it goes to a later
\* phase, or from voting to the next night.
C1_PhaseNeverMovesBack ==
  [][\/ PhaseRank(room'.phase) >= PhaseRank(room.phase)
     \/ room.phase = "voting" /\ room'.phase = "night"]_vars

\* C2: the round number never decreases in a step.
C2_RoundNeverDecreases == [][room'.round >= room.round]_vars

\* C3: processNightPhase runs at most once for a night and processVoting at
\* most once for a voting sequence, whatever the interleaving of ticks,
\* votes and suspended handlers.
C3_ResolvedOnce == nightResolved <= 1 /\ votingResolved <= 1

\* The phase and turn a room is at.
TurnOf(r) ==
  <<r.phase,
    IF HasDS(r) THEN <<DS(r).isIndividualPhase, DS(r).currentSpeakerIndex>> ELSE <<>>>>

Turns ==
  {<<phase, turn>> : phase \in ActivePhases,
                     turn \in {<<>>} \cup (BOOLEAN \X (0..Cardinality(PlayerIds)))}

\* The steps MaxRound cuts off are those that would begin a night after the
\* voting of round MaxRound.
AtRoundBound(r) == r.phase = "voting" /\ r.round = MaxRound

\* C4: with no player events and fair ticks, a room in night, discussion or
\* voting does not stay forever in the same phase and turn.
C4_Progress ==
  \A t \in Turns : []<>~(registered /\ TurnOf(room) = t /\ ~AtRoundBound(room))

\* C5: a registered room with no handler suspended and no endGame scheduled
\* has a timer exactly when its phase is night, discussion or voting.
C5_OneTimerWhenActive ==
  (registered /\ PendTotal = 0 /\ endPending = 0)
    => (timer <=> room.phase \in ActivePhases)

\* C6: no tick of the timer resolves anything in a room that is no longer
\* in the registry.
C6_NoTickOnRemovedRoom == [][(Tick /\ room' # room) => registered]_vars

\* C7: when a save that a transition awaits fails, the room's timer is armed
\* afterwards.
C7_RearmedAfterFailedSave == [][ResumeFail => timer']_vars

\* The fields that C8 says an ended room keeps.
Frozen(r) ==
  [phase |-> r.phase, round |-> r.round, votes |-> r.votes,
   nightActions |-> r.nightActions, chatMessages |-> r.chatMessages]

\* C8: once the ended flag of a room in the registry is true the phase is
\* ended, and no step changes the phase, round, votes, night actions or chat
\* log, or the role or alive flag of a player.
C8_EndedIsTerminal ==
  [][(registered /\ room.isEnded) =>
       /\ room'.phase = "ended"
       /\ Frozen(room') = Frozen(room)
       /\ \A id \in PlayerIdsOf(room) \cap PlayerIdsOf(room') :
            /\ GetPlayer(room', id).role = GetPlayer(room, id).role
            /\ GetPlayer(room', id).isAlive = GetPlayer(room, id).isAlive]_vars

\* The players of r that are still in r2, in r's join order.
Remaining(r, r2) == SelectSeq(IdsOf(r.players), LAMBDA id : HasPlayer(r2, id))

\* C9: while the room has a player, hostId is the id of one of its players;
\* a step that removes the host and leaves others makes the first remaining
\* player in join order the host.
C9_HostIsPlayer ==
  /\ [](Len(room.players) > 0 => HasPlayer(room, room.hostId))
  /\ [][(HasPlayer(room, room.hostId) /\ ~HasPlayer(room', room.hostId)
           /\ Len(room'.players) > 0)
          => room'.hostId = Remaining(room, room')[1]]_vars

\* C9 witness: the creator p1 has been removed, two players remain and the
\* host is the first of them.
C9_HostPassed ==
  /\ ~HasPlayer(room, "p1")
  /\ Len(room.players) = 2
  /\ room.hostId = room.players[1].id
  /\ room.players[1].isHost

\* C10: every key of votes and of nightActions is the id of a player who is
\* in players and alive.
C10_KeysAreAlivePlayers ==
  (DOMAIN room.votes \cup DOMAIN room.nightActions) \subseteq AliveIds(room)

\* ------------------------------------------------- sockets and reconnects
\* The game specification gives each client one socket.  Here the socket
\* ids are followed: sockets.of is connectedSockets in insertion order, as
\* pairs <<playerId, socketId>>; room.connectedSockets is its set of keys.
\* The host p1 is on socket h1.  Client p2 sends its persistent id from its
\* socket b1.  The guest sends no id from its sockets g1 and g2: its
\* player id is the id of the socket it joined on, and it is found again by
\* its name.
SocketIds == {"h1", "b1", "g1", "g2"}

\* The playerId argument of room:join on a socket (Null: none sent).
ProvidedPlayerId(sock) ==
  CASE sock = "h1" -> "p1"
    [] sock = "b1" -> "p2"
    [] OTHER -> Null

\* The player ids whose player carries the name sent on the socket.
NamesakeIds(sock) ==
  CASE sock = "h1" -> {"p1"}
    [] sock = "b1" -> {"p2"}
    [] OTHER -> {"g1", "g2"}

Min(S) == CHOOSE m \in S : \A n \in S : m <= n

GetSocketId(of, playerId) ==
  IF \E i \in DOMAIN of : of[i][1] = playerId
    THEN of[CHOOSE i \in DOMAIN of : of[i][1] = playerId][2]
    ELSE Null

SetSocketConnectionTo(of, playerId, socketId) ==
  IF \E i \in DOMAIN of : of[i][1] = playerId
    THEN [i \in DOMAIN of |-> IF of[i][1] = playerId THEN <<playerId, socketId>> ELSE of[i]]
    ELSE Append(of, <<playerId, socketId>>)

\* removeSocketConnection(socketId): the player id it returns (the first
\* entry with that socket), and the map it leaves.
RemovedPlayerId(of, socketId) ==
  LET found == {i \in DOMAIN of : of[i][2] = socketId}
  IN IF found = {} THEN Null ELSE of[Min(found)][1]

RemoveSocketConnectionOf(of, socketId) ==
  LET found == {i \in DOMAIN of : of[i][2] = socketId}
  IN IF found = {} THEN of
     ELSE [i \in 1..(Len(of) - 1) |-> IF i < Min(found) THEN of[i] ELSE of[i + 1]]

ConnectedIds(of) == {of[i][1] : i \in DOMAIN of}

\* findPlayerIdBySocket: the first player whose socket it is, else the
\* player whose id is the socket id (playerToRoom holds the ids of the
\* players of a room in the registry), else null.
FindPlayerIdBySocketId(r, of, socketId) ==
  LET owners == {i \in DOMAIN r.players : GetSocketId(of, r.players[i].id) = socketId}
  IN IF ~registered THEN Null
     ELSE IF owners # {} THEN r.players[Min(owners)].id
     ELSE IF HasPlayer(r, socketId) THEN socketId
     ELSE Null

\* findPlayerByName, for the name sent on the socket.
FindPlayerByName(r, sock) ==
  LET found == {i \in DOMAIN r.players : r.players[i].id \in NamesakeIds(sock)}
  IN IF found = {} THEN Null ELSE r.players[Min(found)].id

\* A client opens a socket (each socket id is used once).
SockOpen(sock) ==
  /\ sock \notin sockets.open \cup sockets.gone
  /\ sockets' = [sockets EXCEPT !.open = @ \cup {sock}]
  /\ UNCHANGED <<room, registered, saved, events, last>>
  /\ UNCHANGED Quiet

\* room:join on a socket: the player id is the one sent, else the id of the
\* player with the sender's name, else the socket id; joinRoom returns the
\* room of a player who is in it and adds a new player in the lobby.
SockJoin(sock) ==
  /\ sock \in sockets.open
  /\ registered
  /\ LET provided == ProvidedPlayerId(sock)
         byName == FindPlayerByName(room, sock)
         playerId == IF provided # Null THEN provided
                     ELSE IF byName # Null THEN byName ELSE sock
         isReconnecting == HasPlayer(room, playerId)
         wasConnected == playerId \in ConnectedIds(sockets.of)
         of1 == SetSocketConnectionTo(sockets.of, playerId, sock)
         notify == room.phase # "lobby" /\ isReconnecting /\ ~wasConnected
     IN /\ ~isReconnecting =>
             /\ room.phase = "lobby"
             /\ Len(room.players) < MaxPlayers
             /\ FindPlayerByName(room, sock) = Null
        /\ sockets' = [sockets EXCEPT !.of = of1]
        /\ LET r1 == IF isReconnecting THEN room ELSE AddPlayer(room, playerId, FALSE)
               r2 == [r1 EXCEPT !.connectedSockets = ConnectedIds(of1)]
               r3 == IF notify THEN AddChatMessage(r2) ELSE r2
           IN room' = r3 /\ saved' = SavedAfter(notify \/ ~isReconnecting, r3)
  /\ UNCHANGED <<registered, events, last>>
  /\ UNCHANGED Quiet

\* The disconnect handler of a socket.
SockDisconnect(sock) ==
  /\ sock \in sockets.open
  /\ LET playerId == FindPlayerIdBySocketId(room, sockets.of, sock)
         removedPlayerId == IF playerId # Null THEN RemovedPlayerId(sockets.of, sock) ELSE Null
         of1 == IF playerId # Null THEN RemoveSocketConnectionOf(sockets.of, sock)
                ELSE sockets.of
         r1 == [room EXCEPT !.connectedSockets = ConnectedIds(of1)]
     IN /\ sockets' = [of |-> of1, open |-> sockets.open \ {sock},
                       gone |-> sockets.gone \cup {sock}]
        /\ IF playerId = Null
             THEN UNCHANGED <<room, registered, saved>>
             ELSE IF removedPlayerId # Null /\ room.phase # "lobby"
               THEN /\ room' = IF HasPlayer(room, removedPlayerId)
                                 THEN AddChatMessage(r1) ELSE r1
                    /\ saved' = TRUE
                    /\ UNCHANGED registered
               ELSE LeaveRoom(RemovePlayer(r1, playerId))
  /\ UNCHANGED <<events, last>>
  /\ UNCHANGED Quiet

ConnInit ==
  /\ room = SetSocketConnection(NewRoom("p1"), "p1")
  /\ registered = TRUE
  /\ saved = TRUE
  /\ timer = FALSE
  /\ pend = NoPend
  /\ endPending = 0
  /\ nightResolved = 0
  /\ votingResolved = 0
  /\ events = 0
  /\ sockets = [of |-> <<<<"p1", "h1">>>>, open |-> {"h1"}, gone |-> {}]
  /\ last = NoCall

ConnNext ==
  \/ \E sock \in SocketIds : SockOpen(sock)
  \/ \E sock \in SocketIds : SockJoin(sock)
  \/ \E sock \in SocketIds : SockDisconnect(sock)
  \/ \E p \in PlayerIds : GameStart(p)
  \/ Tick
  \/ ResumeArm
  \/ ResumeAfterAuto

ConnSpec == ConnInit /\ [][ConnNext]_vars

\* C11: the disconnect of a socket while the room is in a phase other than
\* lobby removes no player and changes no role: players is left as it was,
\* whatever the order of a player's reconnection and the disconnect of the
\* player's old socket.
C11_DropKeepsPlayers ==
  [][\A sock \in SocketIds :
       (SockDisconnect(sock) /\ room.phase # "lobby") => room'.players = room.players]_vars

\* The fields of the data model that C12 names (connectedSockets is not one
\* of them).
DataFields(r) ==
  [hostId |-> r.hostId, players |-> r.players, phase |-> r.phase,
   round |-> r.round, endTime |-> r.endTime,
   discussionState |-> r.discussionState, nightActions |-> r.nightActions,
   votes |-> r.votes, chatMessages |-> r.chatMessages,
   lastNightResult |-> r.lastNightResult,
   lastVotingResult |-> r.lastVotingResult, isEnded |-> r.isEnded]

\* C12: the room rebuilt by fromGameRoom from the toGameRoom snapshot of a
\* room in the registry equals that room on every field of the data model.
C12_RoundTrip ==
  registered => DataFields(FromGameRoom(ToGameRoom(room))) = DataFields(room)

\* -------------------------------------------- one voting sequence, by call
\* The Room methods of a voting sequence applied one call at a time to a
\* room in voting, and each call repeated on its twin: the room rebuilt by
\* fromGameRoom from a snapshot taken at some moment of the sequence (until
\* then the twin is the room itself).
VoterIds == <<"p1", "p2", "p3", "p4">>

\* The targetId a client sends: a player's id, alive or dead, or the id of
\* nobody in the room.
VoteTargets == Range(VoterIds) \cup {"nobody"}

RECURSIVE JoinAll(_, _)
JoinAll(r, ids) ==
  IF ids = <<>> THEN r
  ELSE JoinAll(SetSocketConnection(AddPlayer(r, Head(ids), FALSE), Head(ids)), Tail(ids))

\* The lobby of p1 that the others joined in turn.
LobbyOfFour == JoinAll(SetSocketConnection(NewRoom("p1"), "p1"), Tail(VoterIds))

\* The first voting of a started game (everyone alive), and the voting of
\* round 2 after a tied first voting and a night in which the mafia killed.
VotingRooms ==
  LET started == {StartGame(LobbyOfFour, sh) : sh \in Shuffles(VoterIds)}
      first == {EndDiscussion(r) : r \in started}
      night == {StartNextNight(AddChatMessage(ProcessVoting(r))) : r \in first}
      mafiaOf(r) == CHOOSE p \in PlayerIdsOf(r) : RoleOf(r, p) = "mafia"
      dawn == {ProcessNightPhase(SetNightAction(r, mafiaOf(r), t), t) :
                 r \in night, t \in Range(VoterIds)}
      second == {EndDiscussion(StartDiscussion(AddChatMessage(r))) :
                   r \in {d \in dawn : CheckGameEnd(d) = Null}}
  IN first \cup second

\* The value held for the result of processVoting while it has not run.
NoVotingResult == [eliminatedId |-> Null, votes |-> EmptyMap, isTie |-> FALSE]

VotingInit ==
  /\ room \in VotingRooms
  /\ registered = TRUE
  /\ saved = TRUE
  /\ timer = TRUE
  /\ pend = NoPend
  /\ endPending = 0
  /\ nightResolved = 0
  /\ votingResolved = 0
  /\ events = 0
  /\ sockets = NoSockets
  /\ last = [op |-> "endDiscussion", before |-> room,
             hasNext |-> FALSE, result |-> NoVotingResult,
             twin |-> room, twinHasNext |-> FALSE, twinResult |-> NoVotingResult,
             aliveAtStart |-> AliveIds(room), snapVotes |-> -1, snapIndex |-> -1,
             threw |-> FALSE, tried |-> Null]

InVoting(r) == r.phase = "voting" /\ HasDS(r)

\* What a call of a Room method on its own leaves alone.
Server == <<registered, saved, timer, pend, endPending, nightResolved,
            votingResolved, events, sockets>>

\* The record of a call: the room it was made on, what nextVoter or
\* processVoting returned, and the same for the twin.
Called(op, hasNext, result, twin, twinHasNext, twinResult) ==
  [last EXCEPT !.op = op, !.before = room,
               !.hasNext = hasNext, !.result = result, !.twin = twin,
               !.twinHasNext = twinHasNext, !.twinResult = twinResult,
               !.threw = FALSE, !.tried = Null]

\* room.vote(currentVoterId, targetId): the turn-holder's vote in the
\* action:vote handler, or the timer's auto-vote (targetId the voter).
CallVote(targetId) ==
  /\ InVoting(room)
  /\ DS(room).currentSpeakerId # Null
  /\ ~HasPlayerVoted(room, DS(room).currentSpeakerId)
  /\ room' = Vote(room, DS(room).currentSpeakerId, targetId)
  /\ last' = Called("vote", FALSE, NoVotingResult,
                    Vote(last.twin, DS(room).currentSpeakerId, targetId),
                    FALSE, NoVotingResult)
  /\ UNCHANGED Server

\* room.vote(currentVoterId, targetId) for a turn-holder whose vote is
\* recorded: an action:vote that arrives while handleVotingEnd awaits the save
\* of its auto-vote, or a second call on the room by itself.
CallVoteAgain(targetId) ==
  /\ InVoting(room)
  /\ DS(room).currentSpeakerId # Null
  /\ HasPlayerVoted(room, DS(room).currentSpeakerId)
  /\ room' = Vote(room, DS(room).currentSpeakerId, targetId)
  /\ last' = [Called("voteAgain", FALSE, NoVotingResult,
                      Vote(last.twin, DS(room).currentSpeakerId, targetId),
                      FALSE, NoVotingResult)
                EXCEPT !.threw = VoteThrows(room, DS(room).currentSpeakerId),
                       !.tried = targetId]
  /\ UNCHANGED Server

\* room.nextVoter()
CallNextVoter ==
  /\ InVoting(room)
  /\ room' = NextVoter(room)
  /\ last' = Called("nextVoter", NextVoterResult(room), NoVotingResult,
                    NextVoter(last.twin), NextVoterResult(last.twin), NoVotingResult)
  /\ UNCHANGED Server

\* room.processVoting(), which its callers run when nextVoter returned false.
CallProcessVoting ==
  /\ InVoting(room)
  /\ ~NextVoterResult(room)
  /\ room' = ProcessVoting(room)
  /\ last' = Called("processVoting", FALSE, ProcessVotingResult(room),
                    ProcessVoting(last.twin), FALSE, ProcessVotingResult(last.twin))
  /\ UNCHANGED Server

\* The room is saved and the twin rebuilt from the snapshot.
CallFromGameRoom ==
  /\ InVoting(room)
  /\ last.snapVotes = -1
  /\ last' = [Called("fromGameRoom", FALSE, NoVotingResult,
                      FromGameRoom(ToGameRoom(room)), FALSE, NoVotingResult)
                EXCEPT !.snapVotes = Cardinality(DOMAIN room.votes),
                       !.snapIndex = DS(room).currentSpeakerIndex]
  /\ UNCHANGED room
  /\ UNCHANGED Server

VotingNext ==
  \/ \E targetId \in VoteTargets : CallVote(targetId)
  \/ \E targetId \in VoteTargets : CallVoteAgain(targetId)
  \/ CallNextVoter
  \/ CallProcessVoting
  \/ CallFromGameRoom

VotingSpec == VotingInit /\ [][VotingNext]_vars

\* The players of a room in join order, each with its alive flag.
AliveFlags(r) == [i \in DOMAIN r.players |-> <<r.players[i].id, r.players[i].isAlive>>]

\* C13: once the twin has been rebuilt from a snapshot taken during the
\* voting sequence, every further vote, nextVoter and processVoting call
\* gives the same result on the twin as on the room (same next voter, same
\* tallies, eliminatedId and isTie) and leaves the same alive flags.
C13_SameOutcomeAfterReload ==
  last.snapVotes >= 0 =>
    /\ last.twinHasNext = last.hasNext
    /\ last.twinResult = last.result
    /\ last.twin.discussionState = room.discussionState
    /\ last.twin.votes = room.votes
    /\ AliveFlags(last.twin) = AliveFlags(room)

\* C13 witness: the snapshot was taken with a vote recorded and the turn
\* past the first voter, more votes followed, and processVoting eliminated a
\* player.
C13_ReloadedMidVoting ==
  /\ last.op = "processVoting"
  /\ last.snapVotes >= 1
  /\ last.snapIndex >= 1
  /\ Cardinality(DOMAIN last.before.votes) > last.snapVotes
  /\ last.result.eliminatedId # Null

\* C14: the eliminatedId that processVoting returns is null or the id of a
\* player who was alive when the voting sequence started.
C14_EliminatedWasAlive ==
  last.op = "processVoting" =>
    last.result.eliminatedId \in {Null} \cup last.aliveAtStart

\* The tally of target t in room r: the recorded votes for t, and one more
\* when t is alive and has no recorded vote.
TallyOf(r, t) ==
  Cardinality({v \in DOMAIN r.votes : r.votes[v] = t})
    + (IF t \in AliveIds(r) /\ t \notin DOMAIN r.votes THEN 1 ELSE 0)

MaxTally(r) == Max({TallyOf(r, t) : t \in VoteTargets} \cup {0})

TopOf(r) == {t \in VoteTargets : TallyOf(r, t) = MaxTally(r)}

\* C15: processVoting returns isTie exactly when two or more ids share the
\* maximum tally or the maximum is zero, and then eliminates nobody;
\* otherwise eliminatedId is the one player with the maximum tally and that
\* player alone is marked not alive.
C15_TieOrUniqueTop ==
  last.op = "processVoting" =>
    LET res == last.result
        before == last.before
    IN /\ res.isTie <=> (Cardinality(TopOf(before)) >= 2 \/ MaxTally(before) = 0)
       /\ res.isTie => (res.eliminatedId = Null /\ AliveFlags(room) = AliveFlags(before))
       /\ ~res.isTie =>
            /\ TopOf(before) = {res.eliminatedId}
            /\ HasPlayer(before, res.eliminatedId)
            /\ AliveIds(room) = AliveIds(before) \ {res.eliminatedId}
            /\ room.players = SetAlive(before, res.eliminatedId, FALSE).players

\* C16: the tallies that processVoting returns count every recorded vote
\* once for its target and every living player without a recorded vote once
\* against that player; and when the three others of four living players
\* have voted for D and D holds D's own vote (the timer's auto-vote), D is
\* eliminated and it is no tie.
C16_TallyCountsAutoVotes ==
  last.op = "processVoting" =>
    LET res == last.result
        before == last.before
    IN /\ \A t \in VoteTargets :
            (IF t \in DOMAIN res.votes THEN res.votes[t] ELSE 0) = TallyOf(before, t)
       /\ \A d \in AliveIds(before) :
            (/\ Cardinality(AliveIds(before)) = 4
             /\ \A v \in AliveIds(before) : HasPlayerVoted(before, v) /\ before.votes[v] = d)
              => (res.eliminatedId = d /\ ~res.isTie)

\* C16 witness: four living players, everyone's recorded vote is for p4
\* (p4's own among them), and processVoting eliminated p4.
C16_AutoVotedOut ==
  /\ last.op = "processVoting"
  /\ Cardinality(AliveIds(last.before)) = 4
  /\ \A v \in AliveIds(last.before) :
       HasPlayerVoted(last.before, v) /\ last.before.votes[v] = "p4"
  /\ last.result.eliminatedId = "p4"
  /\ ~last.result.isTie
  /\ ~GetPlayer(room, "p4").isAlive

\* ------------------------------------------------- the night, call by call
\* processNightPhase and checkGameEnd called on a room in its night, after
\* the night actions the living players sent.

\* The targetId a client sends with action:night-action: a player's id, the
\* id of nobody in the room, or the empty string.
NightTargets == Range(VoterIds) \cup {"nobody", ""}

\* The roles of p1..p4 in a stored room: as assignRoles gives them to four
\* players, and with a doctor, a sheriff or a second mafia among them.
StoredRoles ==
  {<<"mafia", "citizen", "citizen", "citizen">>,
   <<"mafia", "doctor", "sheriff", "citizen">>,
   <<"mafia", "mafia", "doctor", "citizen">>}

\* Consecutive calls of checkGameEnd in one behaviour.
MaxChecks == 2

\* The rooms loaded by fromGameRoom from a room stored in its first night
\* (after a tied voting) with the roles above.
NightRooms ==
  LET night == StartNextNight(AddChatMessage(ProcessVoting(
                 EndDiscussion(StartGame(LobbyOfFour, VoterIds)))))
      data(roles) ==
        [ToGameRoom(night) EXCEPT
           !.players = [i \in DOMAIN night.players |->
                          [night.players[i] EXCEPT !.role = roles[i]]]]
  IN {FromGameRoom(data(roles)) : roles \in StoredRoles}

\* The value held for the result of processNightPhase while it has not run.
NoNightResult ==
  [killedId |-> Null, savedId |-> Null, checkedId |-> Null, checkedRole |-> "none"]

NightInit ==
  /\ room \in NightRooms
  /\ registered = TRUE
  /\ saved = TRUE
  /\ timer = TRUE
  /\ pend = NoPend
  /\ endPending = 0
  /\ nightResolved = 0
  /\ votingResolved = 0
  /\ events = 0
  /\ sockets = NoSockets
  /\ last = [op |-> "fromGameRoom", before |-> room, result |-> NoNightResult,
             winner |-> "none", prevWinner |-> "none", checks |-> 0]

\* room.setNightAction(playerId, targetId), as the action:night-action
\* handler calls it: in the night, for a living player, with any targetId.
CallSetNightAction(playerId, targetId) ==
  /\ room.phase = "night"
  /\ last.result = NoNightResult
  /\ last.op \in {"fromGameRoom", "setNightAction"}
  /\ HasPlayer(room, playerId)
  /\ GetPlayer(room, playerId).isAlive
  /\ room' = SetNightAction(room, playerId, targetId)
  /\ last' = [last EXCEPT !.op = "setNightAction", !.before = room, !.checks = 0]
  /\ UNCHANGED Server

\* room.processNightPhase(), once for the night.
CallProcessNightPhase ==
  /\ room.phase = "night"
  /\ last.result = NoNightResult
  /\ last.op \in {"fromGameRoom", "setNightAction"}
  /\ \E killedId \in KilledIdChoices(room) :
       /\ room' = ProcessNightPhase(room, killedId)
       /\ last' = [last EXCEPT !.op = "processNightPhase", !.before = room,
                               !.result = ProcessNightPhaseResult(room, killedId),
                               !.checks = 0]
  /\ UNCHANGED Server

\* room.checkGameEnd(): it reads the players and assigns nothing.
CallCheckGameEnd ==
  /\ last.checks < MaxChecks
  /\ last' = [last EXCEPT !.op = "checkGameEnd", !.before = room,
                          !.prevWinner = IF last.op = "checkGameEnd"
                                           THEN last.winner ELSE "none",
                          !.winner = CheckGameEnd(room),
                          !.checks = @ + 1]
  /\ UNCHANGED room
  /\ UNCHANGED Server

NightNext ==
  \/ \E playerId \in Range(VoterIds), targetId \in NightTargets :
       CallSetNightAction(playerId, targetId)
  \/ CallProcessNightPhase
  \/ CallCheckGameEnd

NightSpec == NightInit /\ [][NightNext]_vars

\* The target recorded for the doctor of room r, Null without one.
DoctorTarget(r) ==
  LET doctors == {a \in DOMAIN r.nightActions :
                    \E i \in DOMAIN r.players :
                      r.players[i].id = a /\ r.players[i].role = "doctor"}
  IN IF doctors = {} THEN Null ELSE r.nightActions[CHOOSE a \in doctors : TRUE]

\* C17: when the doctor's recorded target is the kill target that
\* processNightPhase selected, the call returns killedId = savedId = that
\* target and no player's alive flag changes.
C17_SavedTargetSurvives ==
  (/\ last.op = "processNightPhase"
   /\ DoctorTarget(last.before) # Null
   /\ DoctorTarget(last.before) = last.result.killedId)
    => /\ last.result.killedId = DoctorTarget(last.before)
       /\ last.result.savedId = DoctorTarget(last.before)
       /\ AliveFlags(room) = AliveFlags(last.before)

\* The mafia's target was a living player whom the doctor saved.
C17_DoctorSavedTheTarget ==
  /\ last.op = "processNightPhase"
  /\ DoctorTarget(last.before) = last.result.killedId
  /\ last.result.killedId \in AliveIds(last.before)
  /\ last.result.savedId = last.result.killedId
  /\ last.result.killedId \in AliveIds(room)

LivingMafia(r) ==
  Cardinality({i \in DOMAIN r.players :
                 r.players[i].isAlive /\ r.players[i].role = "mafia"})

LivingOthers(r) ==
  Cardinality({i \in DOMAIN r.players :
                 r.players[i].isAlive /\ r.players[i].role # "mafia"})

\* C20: checkGameEnd returns town exactly when no living player is mafia,
\* mafia exactly when there is a living mafia and the living mafia are at
\* least as many as the other living players, and null otherwise; it leaves
\* the room as it was, and a second call in a row returns the same.
C20_WinnerByCounts ==
  last.op = "checkGameEnd" =>
    /\ (last.winner = "town") = (LivingMafia(last.before) = 0)
    /\ (last.winner = "mafia") =
         (LivingMafia(last.before) >= 1
            /\ LivingMafia(last.before) >= LivingOthers(last.before))
    /\ (last.winner = Null) =
         (LivingMafia(last.before) >= 1
            /\ LivingMafia(last.before) < LivingOthers(last.before))
    /\ room = last.before
    /\ (last.checks >= 2 => last.winner = last.prevWinner)

\* checkGameEnd was called twice in a row after a night whose target was
\* saved, which left as many mafia as others alive.
C20_CalledTwiceAtParity ==
  /\ last.op = "checkGameEnd"
  /\ last.checks >= 2
  /\ last.result.killedId \in AliveIds(room)
  /\ LivingMafia(room) >= 1
  /\ LivingMafia(room) = LivingOthers(room)
  /\ last.winner = "mafia"

\* ------------------------------------------------------ the roles of a game
\* A lobby filling up to maxPlayers, and startGame on it.

RoleIds ==
  <<"p1", "p2", "p3", "p4", "p5", "p6", "p7", "p8",
    "p9", "p10", "p11", "p12", "p13", "p14", "p15", "p16">>

\* The orders of the shuffle that are tried: the rotations of the players'
\* order and of its reverse, which put every player at every position.
ShufflesTried(ids) ==
  LET n == Len(ids)
      rot(k) == [i \in 1..n |-> ids[((i + k - 1) % n) + 1]]
      rev(q) == [i \in 1..n |-> q[n + 1 - i]]
  IN {rot(k) : k \in 0..(n - 1)} \cup {rev(rot(k)) : k \in 0..(n - 1)}

RolesInit ==
  /\ room = SetSocketConnection(NewRoom(RoleIds[1]), RoleIds[1])
  /\ registered = TRUE
  /\ saved = TRUE
  /\ timer = FALSE
  /\ pend = NoPend
  /\ endPending = 0
  /\ nightResolved = 0
  /\ votingResolved = 0
  /\ events = 0
  /\ sockets = NoSockets
  /\ last = NoCall

\* joinRoom of the next player, while the room is a lobby and not full.
RolesJoin ==
  /\ room.phase = "lobby"
  /\ Len(room.players) < MaxPlayers
  /\ Len(room.players) < Len(RoleIds)
  /\ room' = JoinAll(room, <<RoleIds[Len(room.players) + 1]>>)
  /\ UNCHANGED Server
  /\ UNCHANGED last

\* room.startGame(), which throws below minPlayers.
RolesStartGame(shuffled) ==
  /\ room.phase = "lobby"
  /\ Len(room.players) >= MinPlayers
  /\ room' = StartGame(room, shuffled)
  /\ UNCHANGED <<registered, saved, pend, endPending, nightResolved,
                 votingResolved, events, sockets>>
  /\ timer' = TRUE
  /\ UNCHANGED last

RolesNext ==
  \/ RolesJoin
  \/ \E shuffled \in ShufflesTried(IdsOf(room.players)) : RolesStartGame(shuffled)

RolesSpec == RolesInit /\ [][RolesNext]_vars

CountRole(r, role) ==
  Cardinality({i \in DOMAIN r.players : r.players[i].role = role})

\* C18: after startGame on N players (minPlayers <= N <= 16) exactly 1, 2,
\* 3 or 4 players are mafia for N <= 6, 7..9, 10..12, 13..16; every player
\* has one of the four roles; doctors plus sheriffs are at most N minus the
\* mafia.
C18_TieredMafia ==
  (room.phase # "lobby" /\ Len(room.players) >= MinPlayers /\ Len(room.players) <= 16) =>
    LET N == Len(room.players)
        tier == IF N <= 6 THEN 1 ELSE IF N <= 9 THEN 2 ELSE IF N <= 12 THEN 3 ELSE 4
    IN /\ CountRole(room, "mafia") = tier
       /\ \A i \in DOMAIN room.players :
            room.players[i].role \in {"mafia", "doctor", "sheriff", "citizen"}
       /\ CountRole(room, "mafia") + CountRole(room, "doctor")
            + CountRole(room, "sheriff") + CountRole(room, "citizen") = N
       /\ CountRole(room, "doctor") + CountRole(room, "sheriff")
            <= N - CountRole(room, "mafia")

\* Games were started with 6, 7, 12 and 13 players: here one of 13 with its
\* four mafia, the last player of the lobby among them.
C18_ThirteenStarted ==
  /\ room.phase = "discussion"
  /\ Len(room.players) = 13
  /\ CountRole(room, "mafia") = 4
  /\ room.players[13].role = "mafia"

\* C19: after startGame there is a doctor exactly when the settings'
\* hasDoctor is true and a sheriff exactly when hasSheriff is true; every
\* other player who is not mafia is a citizen.
C19_RolesFollowFlags ==
  room.phase # "lobby" =>
    /\ CountRole(room, "doctor") = (IF DefaultSettings.hasDoctor THEN 1 ELSE 0)
    /\ CountRole(room, "sheriff") = (IF DefaultSettings.hasSheriff THEN 1 ELSE 0)
    /\ \A i \in DOMAIN room.players :
         room.players[i].role \in {"mafia", "doctor", "sheriff", "citizen"}

\* C21: a vote by a voter whose vote is recorded fails and leaves the votes
\* map as it was, the voter's first target included, whether that first vote
\* was sent or cast by the timer.
C21_SecondVoteRejected ==
  last.op = "voteAgain" =>
    LET voterId == DS(last.before).currentSpeakerId
    IN /\ last.threw
       /\ room.votes = last.before.votes
       /\ voterId \in DOMAIN room.votes
       /\ room.votes[voterId] = last.before.votes[voterId]

\* The turn-holder, voted against themselves as the timer does, tried another
\* target.
C21_VotedTwice ==
  /\ last.op = "voteAgain"
  /\ LET voterId == DS(last.before).currentSpeakerId
     IN /\ last.before.votes[voterId] = voterId
        /\ last.tried \in AliveIds(room) \ {voterId}

\* C22: while the phase is voting a vote is recorded only for the current
\* turn-holder: every voter who gains a recorded vote in a step taken in the
\* voting phase is the currentSpeakerId of that moment, also after the
\* sequence was resolved and before the next phase began.
C22_OnlyTurnHolderVotes ==
  [][room.phase = "voting" =>
       \A p \in DOMAIN room'.votes \ DOMAIN room.votes :
         HasDS(room) /\ DS(room).currentSpeakerId = p]_vars

\* ------------------------------------------------------ joins, with names
\* room:join and RoomManager.joinRoom with the names the clients send.  The
\* players of this section carry their name; the other operators on rooms
\* leave it as it is.

JoinSocks == {"h1", "b1", "b2", "g1", "g2"}

\* The playerId sent with room:join on a socket (Null: none sent).
JoinId(sock) ==
  CASE sock = "h1" -> "p1"
    [] sock = "b1" -> "p2"
    [] sock = "b2" -> "p3"
    [] OTHER -> Null

\* The playerName sent on a socket.
JoinName(sock) ==
  CASE sock = "h1" -> "ann"
    [] sock = "b1" -> "bob"
    [] sock = "b2" -> "bob"
    [] sock = "g1" -> "ann"
    [] OTHER -> "cat"

\* addPlayer(playerId, playerName): players.set with a new Player.
AddPlayerNamed(r, playerId, playerName, isHost) ==
  LET player == [id |-> playerId, name |-> playerName, isAlive |-> TRUE,
                 isHost |-> isHost, role |-> "none"]
  IN IF \E i \in DOMAIN r.players : r.players[i].id = playerId
       THEN [r EXCEPT !.players =
               [i \in DOMAIN r.players |->
                  IF r.players[i].id = playerId THEN player ELSE r.players[i]]]
       ELSE [r EXCEPT !.players = Append(r.players, player)]

\* findPlayerByName: the id of the first player with that name, or null.
FindPlayerByNameIn(r, playerName) ==
  LET found == {i \in DOMAIN r.players : r.players[i].name = playerName}
  IN IF found = {} THEN Null ELSE r.players[Min(found)].id

\* The player id room:join goes on with: the one sent, else that of the
\* player with the sender's name, else the socket id.
JoinPlayerId(r, sock) ==
  IF JoinId(sock) # Null THEN JoinId(sock)
  ELSE IF FindPlayerByNameIn(r, JoinName(sock)) # Null
    THEN FindPlayerByNameIn(r, JoinName(sock))
  ELSE sock

\* joinRoom: the error it throws ("none": it returns the room).
JoinRoomError(r, playerId, playerName) ==
  IF HasPlayer(r, playerId) THEN "none"
  ELSE IF r.phase # "lobby" THEN "GameAlreadyStarted"
  ELSE IF Len(r.players) >= MaxPlayers THEN "RoomFull"
  ELSE IF \E i \in DOMAIN r.players : r.players[i].name = playerName THEN "NameTaken"
  ELSE "none"

\* joinRoom adding the player again when the id is in the room.
JoinRoomAddsAgain(r, playerId, playerName) ==
  IF JoinRoomError(r, playerId, playerName) # "none" THEN r
  ELSE AddPlayerNamed(r, playerId, playerName, FALSE)

\* joinRoom: the room it leaves.
JoinRoom(r, playerId, playerName) ==
  IF JoinRoomError(r, playerId, playerName) # "none" THEN r
  ELSE IF HasPlayer(r, playerId) THEN r
  ELSE AddPlayerNamed(r, playerId, playerName, FALSE)

JoinInit ==
  /\ room = SetSocketConnection(
              AddPlayerNamed(NewRoom(JoinId("h1")), JoinId("h1"), JoinName("h1"), TRUE),
              JoinId("h1"))
  /\ registered = TRUE
  /\ saved = TRUE
  /\ timer = FALSE
  /\ pend = NoPend
  /\ endPending = 0
  /\ nightResolved = 0
  /\ votingResolved = 0
  /\ events = 0
  /\ sockets = NoSockets
  /\ last = [op |-> "create", error |-> "none", isNew |-> TRUE, phase |-> "lobby"]

\* The room:join handler on a socket.
JoinCall(sock) ==
  /\ registered
  /\ LET playerId == JoinPlayerId(room, sock)
         error == JoinRoomError(room, playerId, JoinName(sock))
         isReconnecting == HasPlayer(room, playerId)
         wasConnected == IsPlayerConnected(room, playerId)
         r1 == SetSocketConnection(JoinRoom(room, playerId, JoinName(sock)), playerId)
         notify == room.phase # "lobby" /\ isReconnecting /\ ~wasConnected
         r2 == IF notify THEN AddChatMessage(r1) ELSE r1
     IN /\ last' = [op |-> "join", error |-> error, isNew |-> ~isReconnecting,
                    phase |-> room.phase]
        /\ IF error # "none"
             THEN UNCHANGED <<room, saved>>
             ELSE room' = r2 /\ saved' = SavedAfter(notify \/ ~isReconnecting, r2)
  /\ UNCHANGED <<registered, events, sockets>>
  /\ UNCHANGED Quiet

JoinNext ==
  \/ \E sock \in JoinSocks : JoinCall(sock)
  \/ \E p \in PlayerIds : GameStart(p)
  \/ Tick
  \/ ResumeArm
  \/ ResumeAfterAuto

JoinSpec == JoinInit /\ [][JoinNext]_vars

UniqueNames(r) ==
  \A i, j \in DOMAIN r.players : i # j => r.players[i].name # r.players[j].name

\* C24: no two players of the room have the same name, and a join of a
\* client who is not yet a player (it sent no player id of the room) under
\* the name of a player of the room is rejected with NameTaken and adds no
\* player.
C24_NameTakenRejected ==
  [][/\ UniqueNames(room')
     /\ \A sock \in JoinSocks :
          (/\ last'.op = "join"
           /\ JoinCall(sock)
           /\ JoinId(sock) \notin PlayerIdsOf(room)
           /\ \E i \in DOMAIN room.players : room.players[i].name = JoinName(sock))
            => /\ last'.error = "NameTaken"
               /\ room'.players = room.players]_vars

\* C25: while a discussion or voting sequence lasts no step changes its
\* speakerOrder (a step that starts a game anew starts another sequence),
\* and currentSpeakerId is null or the id of a living player of the room.
C25_OrderFixedSpeakerAlive ==
  [][/\ (/\ HasDS(room) /\ HasDS(room')
         /\ room'.phase = room.phase /\ room'.round = room.round
         /\ ~(\E p \in PlayerIds : GameStart(p)))
          => DS(room').speakerOrder = DS(room).speakerOrder
     /\ HasDS(room') =>
          DS(room').currentSpeakerId \in {Null} \cup AliveIds(room')]_vars

\* C26: roles are assigned once: in a started game no step (a timer tick,
\* startNextNight, a repeated game:start or any other event) changes the
\* role of a player.
C26_RolesAssignedOnce ==
  [][room.phase # "lobby" =>
       \A id \in PlayerIdsOf(room) \cap PlayerIdsOf(room') :
         GetPlayer(room', id).role = GetPlayer(room, id).role]_vars

RemovePlayerResult(r, playerId) == HasPlayer(r, playerId)

LeaveInit ==
  /\ room = LobbyOfFour
  /\ registered = TRUE
  /\ saved = TRUE
  /\ timer = FALSE
  /\ pend = NoPend
  /\ endPending = 0
  /\ nightResolved = 0
  /\ votingResolved = 0
  /\ events = 0
  /\ sockets = NoSockets
  /\ last = [op |-> "joinRoom", playerId |-> VoterIds[Len(VoterIds)], returned |-> FALSE]

\* leaveRoom(playerId): the room of the player removes them; the registry
\* drops a room left empty.
CallLeaveRoom(playerId) ==
  /\ registered
  /\ HasPlayer(room, playerId)
  /\ LeaveRoom(RemovePlayer(room, playerId))
  /\ last' = [op |-> "removePlayer", playerId |-> playerId,
              returned |-> RemovePlayerResult(room, playerId)]
  /\ UNCHANGED <<events, sockets>>
  /\ UNCHANGED Quiet

\* joinRoom of a client who is not in the lobby.
CallJoinRoom(playerId) ==
  /\ registered
  /\ room.phase = "lobby"
  /\ ~HasPlayer(room, playerId)
  /\ Len(room.players) < MaxPlayers
  /\ room' = SetSocketConnection(AddPlayer(room, playerId, FALSE), playerId)
  /\ saved' = TRUE
  /\ last' = [op |-> "joinRoom", playerId |-> playerId, returned |-> FALSE]
  /\ UNCHANGED <<registered, events, sockets>>
  /\ UNCHANGED Quiet

LeaveNext ==
  \/ \E playerId \in Range(VoterIds) : CallLeaveRoom(playerId)
  \/ \E playerId \in Range(VoterIds) : CallJoinRoom(playerId)

LeaveSpec == LeaveInit /\ [][LeaveNext]_vars

\* C28: removePlayer returns true exactly when the room has no players left
\* after the call.
C28_ReturnsWhetherEmpty ==
  last.op = "removePlayer" => (last.returned <=> Len(room.players) = 0)

\* ------------------------------------------------ the registry of rooms
\* RoomManager.rooms by code and playerToRoom, with the rooms that clients
\* create and leave; room is the room created last.

\* The values generateRoomCode can return: Math.random decides, and nothing
\* compares the code with those in use.
RoomCodes == {"K3F9QZ", "7XW2AB", "M0RT5E"}

HostIds == Range(VoterIds)

\* A room of the registry: its host and its players.
RoomOf(hostId) == [hostId |-> hostId, players |-> {hostId}]

CodeInit ==
  /\ room = SetSocketConnection(NewRoom(VoterIds[1]), VoterIds[1])
  /\ registered = TRUE
  /\ saved = TRUE
  /\ timer = FALSE
  /\ pend = NoPend
  /\ endPending = 0
  /\ nightResolved = 0
  /\ votingResolved = 0
  /\ events = 0
  /\ \E code \in RoomCodes :
       /\ sockets = [rooms |-> [c \in {code} |-> RoomOf(VoterIds[1])],
                     playerToRoom |-> [q \in {VoterIds[1]} |-> code]]
       /\ last = [op |-> "createRoom", code |-> code, hostId |-> VoterIds[1]]

\* createRoom(hostId, ...): new Room(...) draws its code; rooms.set and
\* playerToRoom.set store it under that code.
CreateRoom(hostId, code) ==
  /\ sockets' =
       [rooms |-> [c \in DOMAIN sockets.rooms \cup {code} |->
                     IF c = code THEN RoomOf(hostId) ELSE sockets.rooms[c]],
        playerToRoom |-> [q \in DOMAIN sockets.playerToRoom \cup {hostId} |->
                            IF q = hostId THEN code ELSE sockets.playerToRoom[q]]]
  /\ room' = SetSocketConnection(NewRoom(hostId), hostId)
  /\ registered' = TRUE
  /\ saved' = TRUE
  /\ last' = [op |-> "createRoom", code |-> code, hostId |-> hostId]
  /\ UNCHANGED events
  /\ UNCHANGED Quiet

\* leaveRoom(playerId): the room that playerToRoom names removes the player
\* and is dropped from the registry when it is left empty.
LeaveRegistry(playerId) ==
  /\ playerId \in DOMAIN sockets.playerToRoom
  /\ sockets.playerToRoom[playerId] \in DOMAIN sockets.rooms
  /\ LET code == sockets.playerToRoom[playerId]
         left == [sockets.rooms[code] EXCEPT !.players = @ \ {playerId}]
         keep == IF left.players = {} THEN DOMAIN sockets.rooms \ {code}
                 ELSE DOMAIN sockets.rooms
     IN sockets' =
          [rooms |-> [c \in keep |-> IF c = code THEN left ELSE sockets.rooms[c]],
           playerToRoom |-> [q \in DOMAIN sockets.playerToRoom \ {playerId} |->
                               sockets.playerToRoom[q]]]
  /\ last' = [op |-> "leaveRoom", code |-> sockets.playerToRoom[playerId],
              hostId |-> playerId]
  /\ UNCHANGED <<room, registered, saved, events>>
  /\ UNCHANGED Quiet

CodeNext ==
  \/ \E hostId \in HostIds, code \in RoomCodes : CreateRoom(hostId, code)
  \/ \E playerId \in HostIds : LeaveRegistry(playerId)

CodeSpec == CodeInit /\ [][CodeNext]_vars

\* C29: createRoom never yields a code that a registered room uses: every
\* room of the registry is still there, under its code, after a room was
\* created.
C29_CodesUnique ==
  [][\A hostId \in HostIds, code \in RoomCodes :
       CreateRoom(hostId, code) =>
         /\ code \notin DOMAIN sockets.rooms
         /\ \A c \in DOMAIN sockets.rooms :
              c \in DOMAIN sockets'.rooms /\ sockets'.rooms[c] = sockets.rooms[c]]_vars

\* The night actions of room r recorded by its mafia players, and the
\* number of them that name target t.
MafiaActors(r) ==
  {a \in DOMAIN r.nightActions :
     \E i \in DOMAIN r.players : r.players[i].id = a /\ r.players[i].role = "mafia"}

MafiaTally(r, t) == Cardinality({a \in MafiaActors(r) : r.nightActions[a] = t})

MafiaTargets(r) == {r.nightActions[a] : a \in MafiaActors(r)}

\* C30: with more than one living mafia and at least one mafia action,
\* killedId is one of the targets with the most mafia actions; with exactly
\* one living mafia it is that member's recorded target, or null without
\* one; the actions of the other players have no part in it.
C30_KillIsTopMafiaTarget ==
  last.op = "processNightPhase" =>
    LET b == last.before
        killedId == last.result.killedId
    IN /\ (LivingMafia(b) > 1 /\ MafiaActors(b) # {}) =>
            /\ killedId \in MafiaTargets(b)
            /\ \A t \in MafiaTargets(b) : MafiaTally(b, t) <= MafiaTally(b, killedId)
       /\ (LivingMafia(b) = 1 /\ MafiaActors(b) # {}) => killedId \in MafiaTargets(b)
       /\ (LivingMafia(b) = 1 /\ MafiaActors(b) = {}) => killedId = Null
       /\ killedId \in {Null} \cup MafiaTargets(b)

\* C31 as stated: nextSpeaker returns false only when the room is not in the
\* discussion phase, so in every state of the discussion phase, individual
\* or general, it returns true.
C31_TrueInEveryDiscussionState ==
  room.phase = "discussion" => NextSpeakerResult(room)

\* C31, amended: in the discussion phase nextSpeaker returns true exactly in
\* the individual part, where it advances the speaker or opens the general
\* part; in the general part it returns false and leaves the room as it is.
C31_TrueExactlyInIndividualPart ==
  (room.phase = "discussion" /\ HasDS(room)) =>
    /\ NextSpeakerResult(room) = DS(room).isIndividualPhase
    /\ NextSpeakerResult(room) <=> (NextSpeaker(room) # room)

C31_GeneralPartReached ==
  /\ room.phase = "discussion"
  /\ HasDS(room)
  /\ ~DS(room).isIndividualPhase
  /\ DS(room).currentSpeakerIndex + 1 = Len(DS(room).speakerOrder)
  /\ ~NextSpeakerResult(room)

\* The discussionState of a sequence of turns that starts in room r.
FirstTurn(r) ==
  LET alive == IdsOf(GetAlivePlayers(r))
  IN [currentSpeakerId |-> IF Len(alive) > 0 THEN alive[1] ELSE Null,
      speakerOrder |-> alive,
      currentSpeakerIndex |-> 0,
      isIndividualPhase |-> TRUE]

\* C32: a discussion starts with the turn of the first living player in
\* join order; from then on its discussionState only moves one speaker
\* forward, or to the general part after the last speaker; the room leaves
\* the discussion for the voting only from the general part, with the first
\* living player as voter and no votes.
C32_OneTurnEachThenGeneralThenVoting ==
  [][/\ (room.phase # "discussion" /\ room'.phase = "discussion") =>
          (HasDS(room') /\ DS(room') = FirstTurn(room'))
     /\ (room.phase = "discussion" /\ HasDS(room)) =>
          \/ room'.phase = "ended"
          \/ /\ room'.phase = "discussion"
             /\ HasDS(room')
             /\ \/ DS(room') = DS(room)
                \/ /\ DS(room).isIndividualPhase
                   /\ DS(room).currentSpeakerIndex + 1 < Len(DS(room).speakerOrder)
                   /\ DS(room') =
                        [DS(room) EXCEPT
                           !.currentSpeakerIndex = @ + 1,
                           !.currentSpeakerId =
                              DS(room).speakerOrder[DS(room).currentSpeakerIndex + 2]]
                \/ /\ DS(room).isIndividualPhase
                   /\ DS(room).currentSpeakerIndex + 1 = Len(DS(room).speakerOrder)
                   /\ DS(room') = [DS(room) EXCEPT !.isIndividualPhase = FALSE,
                                                   !.currentSpeakerId = Null]
          \/ /\ room'.phase = "voting"
             /\ ~DS(room).isIndividualPhase
             /\ HasDS(room')
             /\ DS(room') = FirstTurn(room')
             /\ room'.votes = EmptyMap]_vars

\* C33: in a voting sequence the turn moves one voter forward and only
\* once the voter whose turn it was has a recorded vote (the timer records
\* the voter's vote against themselves first); processVoting runs only on
\* the turn of the last voter in speakerOrder.
C33_AutoVoteThenAdvanceThenResolve ==
  [][/\ (/\ room.phase = "voting" /\ HasDS(room)
         /\ room'.phase = "voting" /\ HasDS(room')
         /\ DS(room').currentSpeakerIndex # DS(room).currentSpeakerIndex) =>
          /\ DS(room').currentSpeakerIndex = DS(room).currentSpeakerIndex + 1
          /\ DS(room').currentSpeakerId =
               DS(room).speakerOrder[DS(room).currentSpeakerIndex + 2]
          /\ DS(room).currentSpeakerId \in DOMAIN room'.votes
     /\ votingResolved' > votingResolved =>
          /\ HasDS(room)
          /\ DS(room).currentSpeakerIndex + 1 = Len(DS(room).speakerOrder)]_vars

\* C34: a night or voting resolution that leaves a winner starts no phase,
\* schedules endGame and leaves the timer stopped, and while endGame is
\* scheduled the phase stays and the timer is not armed; a resolution that
\* leaves no winner goes on to the discussion (night) or the night (voting).
C34_WinnerCheckedBeforeNextPhase ==
  [][/\ (nightResolved' > nightResolved \/ votingResolved' > votingResolved) =>
          IF CheckGameEnd(room') # Null
            THEN room'.phase = room.phase /\ endPending' > 0 /\ ~timer'
            ELSE IF nightResolved' > nightResolved
                   THEN room'.phase = "discussion"
                   ELSE room'.phase = "night"
     /\ (endPending > 0 /\ endPending' > 0) =>
          room'.phase = room.phase /\ ~timer']_vars

\* The room once the vote of voterId for targetId is recorded and announced.
VoteRecorded(r, voterId, targetId) ==
  LET r1 == Vote(r, voterId, targetId)
  IN IF HasPlayer(r1, targetId) THEN AddChatMessage(r1) ELSE r1

C36_VotesFollowTheTurn ==
  (room.phase = "voting" /\ HasDS(room) /\ DS(room).isIndividualPhase) =>
    \A i \in 1..Len(DS(room).speakerOrder) :
      /\ i < DS(room).currentSpeakerIndex + 1 =>
           DS(room).speakerOrder[i] \in DOMAIN room.votes
      /\ i > DS(room).currentSpeakerIndex + 1 =>
           DS(room).speakerOrder[i] \notin DOMAIN room.votes

C38_KilledWasAlive ==
  last.op = "processNightPhase" =>
    last.result.killedId \in {Null} \cup AliveIds(last.before)

\* C39: a player id is among the players of at most one registered room,
\* and playerToRoom maps an id to a registered room's code exactly when the
\* id is among that room's players.
C39_OneRoomPerPlayer ==
  \A playerId \in HostIds :
    /\ Cardinality({c \in DOMAIN sockets.rooms :
                      playerId \in sockets.rooms[c].players}) <= 1
    /\ \A c \in DOMAIN sockets.rooms :
         (playerId \in sockets.rooms[c].players) <=>
           (playerId \in DOMAIN sockets.playerToRoom /\ sockets.playerToRoom[playerId] = c)

\* C40: in a room that has a player exactly one player has isHost, and it
\* is the player hostId (the one game:start is accepted from); a player who
\* is added to a room that has players is not a host.
C40_OneHostIsHostId ==
  /\ [](Len(room.players) > 0 =>
          /\ Cardinality({i \in DOMAIN room.players : room.players[i].isHost}) = 1
          /\ \A i \in DOMAIN room.players :
               room.players[i].isHost <=> (room.players[i].id = room.hostId))
  /\ [][Len(room.players) > 0 =>
          \A id \in PlayerIdsOf(room') \ PlayerIdsOf(room) :
            ~GetPlayer(room', id).isHost]_vars

\* The creator p1 left the lobby and joined again as a guest of the new
\* host p2, who started the game.
C40_GuestOfTheNewHost ==
  /\ room.phase = "discussion"
  /\ room.hostId = "p2"
  /\ HasPlayer(room, "p1")
  /\ ~GetPlayer(room, "p1").isHost

====
